---- MODULE Spec2Model ----
(***************************************************************************)
(* SmartScheduler._run of src/생산계획.py: the day-by-day replenishment and  *)
(* allocation loop, as a state machine.                                    *)
(*                                                                         *)
(* Quantities are Python floats and are modelled as such: every sum,       *)
(* difference, product and quotient of the run is rounded as IEEE 754      *)
(* binary64 rounds it, and a form text is the float that float() returns.  *)
(***************************************************************************)
EXTENDS Integers, Sequences, FiniteSets, TLC

(***************************************************************************)
(* Python floats (IEEE 754 binary64, round to nearest, ties to even).      *)
(* A float is [sign, exp, hi, lo] with sign 1 or -1:                       *)
(*   a finite one is sign * (hi * 2^27 + lo) * 2^exp, the 53-bit           *)
(*   significand in two limbs, lo in [0, 2^27) and exp in -1074 .. 971;    *)
(*   hi is in [2^25, 2^26) for a normal number and below 2^25, with exp    *)
(*   -1074, for a subnormal one; 0.0 and -0.0 are the subnormals with      *)
(*   hi = lo = 0;                                                          *)
(*   inf and -inf have exp 972 and hi = lo = 0;                            *)
(*   nan is the one record with exp 972 and lo = 1.                        *)
(***************************************************************************)
B25 == 2^25
B26 == 2^26
B27 == 2^27

MinExp == 0 - 1074
MaxExp == 971

Zero == [sign |-> 1, exp |-> MinExp, hi |-> 0, lo |-> 0]
NegZero == [sign |-> -1, exp |-> MinExp, hi |-> 0, lo |-> 0]
Inf == [sign |-> 1, exp |-> MaxExp + 1, hi |-> 0, lo |-> 0]
NegInf == [sign |-> -1, exp |-> MaxExp + 1, hi |-> 0, lo |-> 0]
NaN == [sign |-> 1, exp |-> MaxExp + 1, hi |-> 0, lo |-> 1]

IsNaN(a) == a.exp > MaxExp /\ a.lo /= 0
IsInf(a) == a.exp > MaxExp /\ a.lo = 0
IsZero(a) == a.hi = 0 /\ a.lo = 0 /\ a.exp <= MaxExp

\* 0.0 or inf with the sign s
SignedZero(s) == IF s < 0 THEN NegZero ELSE Zero
SignedInf(s) == IF s < 0 THEN NegInf ELSE Inf

\* -1, 0, 1 as the magnitude of a is below, equal to, above that of b;
\* neither is nan
MagCmp(a, b) ==
    IF a.exp /= b.exp THEN (IF a.exp < b.exp THEN -1 ELSE 1)
    ELSE IF a.hi /= b.hi THEN (IF a.hi < b.hi THEN -1 ELSE 1)
    ELSE IF a.lo /= b.lo THEN (IF a.lo < b.lo THEN -1 ELSE 1)
    ELSE 0

\* a < b: false when either is nan; -0.0 is not below 0.0
FLt(a, b) ==
    IF IsNaN(a) \/ IsNaN(b) THEN FALSE
    ELSE IF IsZero(a) /\ IsZero(b) THEN FALSE
    ELSE IF a.sign /= b.sign THEN a.sign < b.sign
    ELSE MagCmp(a, b) = 0 - a.sign
FLe(a, b) == ~IsNaN(a) /\ ~IsNaN(b) /\ ~FLt(b, a)
FGt(a, b) == FLt(b, a)
FGe(a, b) == FLe(b, a)
FNeg(a) == IF IsNaN(a) THEN NaN ELSE [a EXCEPT !.sign = 0 - a.sign]

\* min and max as Python's: the first argument unless the second is
\* strictly smaller / greater
Min(a, b) == IF FLt(b, a) THEN b ELSE a
Max(a, b) == IF FGt(b, a) THEN b ELSE a
Min3(a, b, c) == Min(Min(a, b), c)

\* a rounded result: inf beyond the largest finite float
Finite(x) == IF x.exp > MaxExp THEN SignedInf(x.sign) ELSE x

\* the significand h.l with one more in its last place
Carried(s, e, h, l) ==
    IF l + 1 < B27 THEN [sign |-> s, exp |-> e, hi |-> h, lo |-> l + 1]
    ELSE IF h + 1 < B26 THEN [sign |-> s, exp |-> e, hi |-> h + 1, lo |-> 0]
    ELSE [sign |-> s, exp |-> e + 1, hi |-> B25, lo |-> 0]

\* The significand h.l with guard limb g (27 bits below the last place) and
\* a sticky flag (something non-zero below the guard limb), rounded to
\* nearest, ties to even.  h is below 2^26 and e is at least MinExp.
RoundSig(s, e, h, l, g, sticky) ==
    Finite(IF g > B26 \/ (g = B26 /\ (sticky \/ l % 2 = 1))
           THEN Carried(s, e, h, l)
           ELSE [sign |-> s, exp |-> e, hi |-> h, lo |-> l])

\* the significand h.l shifted right by d >= 0 places: <<h, l, g, sticky>>
ShiftRight(h, l, d) ==
    IF d = 0 THEN <<h, l, 0, FALSE>>
    ELSE IF d < 27
    THEN <<h \div 2^d, (h % 2^d) * 2^(27 - d) + l \div 2^d,
           (l % 2^d) * 2^(27 - d), FALSE>>
    ELSE IF d = 27 THEN <<0, h, l, FALSE>>
    ELSE IF d < 54
    THEN <<0, h \div 2^(d - 27),
           (h % 2^(d - 27)) * 2^(54 - d) + l \div 2^(d - 27),
           l % 2^(d - 27) /= 0>>
    ELSE IF d = 54 THEN <<0, 0, h, l /= 0>>
    ELSE <<0, 0, h \div 2^(d - 54), (h % 2^(d - 54)) /= 0 \/ l /= 0>>

\* Gradual underflow: sh is a significand shifted right by d places to the
\* exponent MinExp; the guard limb g and the flag it had go below what the
\* shift pushed out
Denormal(sh, d, g, sticky) ==
    <<sh[1], sh[2], IF d < 27 THEN sh[3] + g \div 2^d ELSE sh[3],
      sh[4] \/ sticky \/ (IF d < 27 THEN g % 2^d /= 0 ELSE g /= 0)>>

\* h.l.g at an exponent d >= 1 places below MinExp, as <<h, l, g, sticky>>
\* at MinExp; from 54 places on the value is under half of the smallest
\* subnormal and only the sticky flag is left of it
Underflow(h, l, g, sticky, d) ==
    IF d >= 54 THEN <<0, 0, 0, TRUE>>
    ELSE Denormal(ShiftRight(h, l, d), d, g, sticky)

RoundTuple(s, e, t) == RoundSig(s, e, t[1], t[2], t[3], t[4])

\* The float nearest to h.l.g at exponent e, h in [2^25, 2^26): below
\* MinExp the significand loses its low bits
Pack(s, e, h, l, g, sticky) ==
    RoundTuple(s, IF e >= MinExp THEN e ELSE MinExp,
               IF e >= MinExp THEN <<h, l, g, sticky>>
               ELSE Underflow(h, l, g, sticky, MinExp - e))

\* h.l.g shifted left until h is in [2^25, 2^26); (h, l, g) is not all zero
RECURSIVE Normalize(_, _, _, _, _, _)
Normalize(s, e, h, l, g, sticky) ==
    IF h >= B25 THEN Pack(s, e, h, l, g, sticky)
    ELSE IF h = 0 /\ l < B26
         THEN Normalize(s, e - 27, l, g, 0, sticky)
    ELSE IF h < 2^17
         THEN Normalize(s, e - 8, h * 2^8 + l \div 2^19,
                        (l % 2^19) * 2^8 + g \div 2^19, (g % 2^19) * 2^8, sticky)
    ELSE Normalize(s, e - 1, h * 2 + l \div B26,
                   (l % B26) * 2 + g \div B26, (g % B26) * 2, sticky)

\* A finite a, not zero, with its significand shifted left until hi is in
\* [2^25, 2^26): a subnormal takes an exponent below MinExp
RECURSIVE Shifted(_, _, _, _)
Shifted(s, e, h, l) ==
    IF h >= B25 THEN [sign |-> s, exp |-> e, hi |-> h, lo |-> l]
    ELSE IF h = 0 /\ l < B26 THEN Shifted(s, e - 27, l, 0)
    ELSE IF h < 2^17
         THEN Shifted(s, e - 8, h * 2^8 + l \div 2^19, (l % 2^19) * 2^8)
    ELSE Shifted(s, e - 1, h * 2 + l \div B26, (l % B26) * 2)

Normal(a) == IF a.hi >= B25 THEN a ELSE Shifted(a.sign, a.exp, a.hi, a.lo)

\* the sum h.l.g of two aligned significands, h below 2^27, rounded
MagSum(s, e, h, l, g, sticky) ==
    RoundTuple(s, IF h < B26 THEN e ELSE e + 1,
               IF h < B26 THEN <<h, l, g, sticky>>
               ELSE <<h \div 2, (h % 2) * B26 + l \div 2,
                      (l % 2) * B26 + g \div 2, sticky \/ g % 2 = 1>>)

\* |a| + |b| with sign s, |a| >= |b| > 0, sh the significand of b aligned
\* to a
MagAdd(s, a, sh) ==
    MagSum(s, a.exp, a.hi + sh[1] + (a.lo + sh[2]) \div B27,
           (a.lo + sh[2]) % B27, sh[3], sh[4])

\* the difference of two aligned significands once the guard limb g is
\* taken: l0 is the low limb before its borrow is passed on
MagDiff(s, e, h0, l0, g, sticky) ==
    Normalize(s, e, h0 - (IF l0 < 0 THEN 1 ELSE 0), l0 % B27, g, sticky)

\* |a| - |b| with sign s, |a| > |b| > 0, sh the significand of b aligned to
\* a.  With the sticky flag the subtrahend is a little above sh: one more
\* unit of the guard limb is taken and the flag kept.
MagSub(s, a, sh) ==
    MagDiff(s, a.exp, a.hi - sh[1],
            a.lo - sh[2] - (IF sh[3] > 0 \/ sh[4] THEN 1 ELSE 0),
            (0 - sh[3] - (IF sh[4] THEN 1 ELSE 0)) % B27, sh[4])

\* x + y or x - y, sh the significand of y aligned to x
AddAligned(x, same, sh) ==
    IF same THEN MagAdd(x.sign, x, sh) ELSE MagSub(x.sign, x, sh)

\* x + y for finite |x| >= |y| > 0
AddOrdered(x, y, equal) ==
    IF x.exp - y.exp > 55 THEN x
    ELSE IF equal /\ x.sign /= y.sign THEN Zero
    ELSE AddAligned(x, x.sign = y.sign, ShiftRight(y.hi, y.lo, x.exp - y.exp))

\* a + b, c the comparison of their magnitudes
AddCompared(a, b, c) ==
    AddOrdered(IF c >= 0 THEN a ELSE b, IF c >= 0 THEN b ELSE a, c = 0)

\* a + b with a nan, an infinity or a zero among them: inf + -inf is nan,
\* -0.0 + -0.0 is -0.0 and every other sum of zeros 0.0
AddSpecial(a, b) ==
    IF IsNaN(a) \/ IsNaN(b) THEN NaN
    ELSE IF IsInf(a) THEN (IF IsInf(b) /\ a.sign /= b.sign THEN NaN ELSE a)
    ELSE IF IsInf(b) THEN b
    ELSE IF ~IsZero(a) THEN a
    ELSE IF ~IsZero(b) THEN b
    ELSE IF a.sign < 0 /\ b.sign < 0 THEN NegZero ELSE Zero

FAdd(a, b) ==
    IF a.exp > MaxExp \/ b.exp > MaxExp \/ IsZero(a) \/ IsZero(b)
    THEN AddSpecial(a, b)
    ELSE AddCompared(a, b, MagCmp(a, b))

FSub(a, b) == FAdd(a, FNeg(b))

\* The 53-bit significand as four 14-bit limbs, lowest first.
Limbs14(a) ==
    <<a.lo % 2^14, a.lo \div 2^14 + (a.hi % 2) * 2^13, (a.hi \div 2) % 2^14,
      a.hi \div 2^15>>

\* the column sums d of a product from column i on, the carries passed
\* upward: the limbs of the product, lowest first, the last carry on top
RECURSIVE Carry(_, _, _, _)
Carry(d, i, carry, acc) ==
    IF i > Len(d) THEN Append(acc, carry)
    ELSE Carry(d, i + 1, (d[i] + carry) \div 2^14, Append(acc, (d[i] + carry) % 2^14))

\* of the 106-bit product p the top 26 + 27 bits, a 27-bit guard limb and
\* the sticky flag are kept and rounded
MulRound(s, e, p) ==
    Normalize(s, e,
              p[8] * 2^18 + p[7] * 2^4 + p[6] \div 2^10,
              (p[6] % 2^10) * 2^17 + p[5] * 2^3 + p[4] \div 2^11,
              (p[4] % 2^11) * 2^16 + p[3] * 4 + p[2] \div 2^12,
              p[2] % 2^12 /= 0 \/ p[1] /= 0)

\* the product of the significands x and y, in limbs
MulLimbs(s, e, x, y) ==
    MulRound(s, e,
             Carry(<<x[1] * y[1],
                     x[1] * y[2] + x[2] * y[1],
                     x[1] * y[3] + x[2] * y[2] + x[3] * y[1],
                     x[1] * y[4] + x[2] * y[3] + x[3] * y[2] + x[4] * y[1],
                     x[2] * y[4] + x[3] * y[3] + x[4] * y[2],
                     x[3] * y[4] + x[4] * y[3],
                     x[4] * y[4]>>, 1, 0, <<>>))

\* x * y for significands with hi in [2^25, 2^26)
MulNormal(x, y) ==
    MulLimbs(x.sign * y.sign, x.exp + y.exp + 53, Limbs14(x), Limbs14(y))

\* a * b with a nan, an infinity or a zero among them: inf * 0.0 is nan
MulSpecial(a, b) ==
    IF IsNaN(a) \/ IsNaN(b) THEN NaN
    ELSE IF IsInf(a) \/ IsInf(b)
    THEN (IF IsZero(a) \/ IsZero(b) THEN NaN ELSE SignedInf(a.sign * b.sign))
    ELSE SignedZero(a.sign * b.sign)

\* a * b; a power of two only moves the exponent when the product is a
\* normal number
FMul(a, b) ==
    IF a.exp > MaxExp \/ b.exp > MaxExp \/ IsZero(a) \/ IsZero(b)
    THEN MulSpecial(a, b)
    ELSE IF b.hi = B25 /\ b.lo = 0 /\ a.hi >= B25
            /\ a.exp + b.exp + 52 >= MinExp /\ a.exp + b.exp + 52 <= MaxExp
    THEN [a EXCEPT !.sign = a.sign * b.sign, !.exp = a.exp + b.exp + 52]
    ELSE MulNormal(Normal(a), Normal(b))

\* Long division of significands.  The state q is <<qh, ql, rh, rl>>: the
\* quotient bits so far and the remainder, below the divisor dh.dl.
\* One more bit, from the quotient and the remainder doubled:
DivBit(q2h, q2l, r2h, r2l, dh, dl) ==
    IF r2h > dh \/ (r2h = dh /\ r2l >= dl)
    THEN <<q2h, q2l + 1, r2h - dh - (IF r2l < dl THEN 1 ELSE 0), (r2l - dl) % B27>>
    ELSE <<q2h, q2l, r2h, r2l>>

DivStep(q, dh, dl) ==
    DivBit(q[1] * 2 + q[2] \div B26, (q[2] * 2) % B27,
           q[3] * 2 + q[4] \div B26, (q[4] * 2) % B27, dh, dl)

\* n >= 1 more bits: the first half of them, then the rest.  Once the
\* remainder is 0 the division is exact and the bits still to come are 0.
RECURSIVE DivBits(_, _, _, _)
DivRest(n, q, dh, dl) ==
    IF q[3] = 0 /\ q[4] = 0
    THEN <<q[1] * 2^n + q[2] \div 2^(27 - n), (q[2] % 2^(27 - n)) * 2^n, 0, 0>>
    ELSE DivBits(n, q, dh, dl)

DivBits(n, q, dh, dl) ==
    IF n = 1 THEN DivStep(q, dh, dl)
    ELSE DivRest(n - n \div 2, DivBits(n \div 2, q, dh, dl), dh, dl)

\* the quotient qh.ql rounded by the guard bit and the remainder in gd
DivRound(s, e, qh, ql, gd) ==
    Pack(s, e, qh, ql, gd[2] * B26, gd[3] /= 0 \/ gd[4] /= 0)

\* q is the 53-bit quotient with its remainder; one more bit is the guard
DivGuard(s, e, q, dh, dl) ==
    DivRound(s, e, q[1], q[2], DivStep(<<0, 0, q[3], q[4]>>, dh, dl))

\* nh.nl / dh.dl with the quotient in [1, 2): its first bit is 1, 52 follow
DivSig(s, e, nh, nl, dh, dl) ==
    DivGuard(s, e,
             DivBits(52, <<0, 1, nh - dh - (IF nl < dl THEN 1 ELSE 0),
                           (nl - dl) % B27>>, dh, dl),
             dh, dl)

\* a / b for significands with hi in [2^25, 2^26); the dividend is doubled
\* when its significand is below the divisor's
DivOrdered(a, b, below) ==
    DivSig(a.sign * b.sign, a.exp - b.exp - 52 - (IF below THEN 1 ELSE 0),
           IF below THEN a.hi * 2 + a.lo \div B26 ELSE a.hi,
           IF below THEN (a.lo * 2) % B27 ELSE a.lo, b.hi, b.lo)

DivNormal(x, y) ==
    DivOrdered(x, y, x.hi < y.hi \/ (x.hi = y.hi /\ x.lo < y.lo))

\* a / b with a nan, an infinity or a zero dividend among them, b not zero:
\* inf / inf is nan
DivSpecial(a, b) ==
    IF IsNaN(a) \/ IsNaN(b) THEN NaN
    ELSE IF IsInf(a) THEN (IF IsInf(b) THEN NaN ELSE SignedInf(a.sign * b.sign))
    ELSE SignedZero(a.sign * b.sign)

\* a / b, b not zero (Python raises ZeroDivisionError: the quotient has no
\* value); a power of two only moves the exponent when the quotient is a
\* normal number
FDiv(a, b) ==
    IF IsZero(b) THEN CHOOSE q \in {} : TRUE
    ELSE IF a.exp > MaxExp \/ b.exp > MaxExp \/ IsZero(a) THEN DivSpecial(a, b)
    ELSE IF b.hi = B25 /\ b.lo = 0 /\ a.hi >= B25
            /\ a.exp - b.exp - 52 >= MinExp /\ a.exp - b.exp - 52 <= MaxExp
    THEN [a EXCEPT !.sign = a.sign * b.sign, !.exp = a.exp - b.exp - 52]
    ELSE DivNormal(Normal(a), Normal(b))

\* the float of a natural number below 2^31, not 0, with sign s
IntMag(s, m) == Shifted(s, 0, m \div B27, m % B27)

\* the float of an integer, |n| < 2^31
FInt(n) ==
    IF n = 0 THEN Zero ELSE IF n < 0 THEN IntMag(-1, 0 - n) ELSE IntMag(1, n)

\* float("n / 10^scale" written as a decimal), e.g. FromDecimal(324, 1) is 32.4
FromDecimal(n, scale) == FDiv(FInt(n), FInt(10^scale))

\* float(text) of a text with one decimal, e.g. Dec(32, 4) is float("32.4")
Dec(whole, tenths) == FromDecimal(whole * 10 + tenths, 1)


(***************************************************************************)
(* Configuration constants, lines 10-32.                                   *)
(***************************************************************************)
PACK_S3 == FInt(160)
PACK_S1_S2_COMBINED == FInt(100)
DAYS == 30
INVENTORY_CAP == Dec(500, 0)
SILO2_CAP == Dec(300, 0)
NP3_MAX_INV == Dec(350, 0)
LV_INIT == Dec(100, 0)
LLV_INIT == Dec(180, 0)
NP3_INIT_VAL == Dec(120, 0)
NP3_MIN_STOCK_BEFORE_CAMPAIGN == Dec(50, 0)
NP3_TARGET_BATCH_PRODUCTION_SIZE == Dec(320, 0)
NP3_PRODUCTION_RATE_IN_CAMPAIGN == Dec(0, 5)
MINIMUM_RUN_DAYS == 3
RESERVATION_BUFFER_DAYS == MINIMUM_RUN_DAYS
S2_LV_MIN_STOCK_TRIGGER == Dec(30, 0)
S1_HV_MAX_CAPA == Dec(400, 0)
LLV_SAFETY_STOCK_FOR_C == Dec(50, 0)

\* x > 0.001, the tolerance of the termination check and of the summary
Tolerance == FromDecimal(1, 3)
AboveTolerance(x) == FGt(x, Tolerance)

\* the literal 0.5 of lines 625-626
Half == Dec(0, 5)
\* RESERVATION_BUFFER_DAYS as the float the products of lines 659, 679, 693
\* and 726 convert it to
BufferDays == FInt(RESERVATION_BUFFER_DAYS)
\* the 100 of line 947 and the 100 and 0 of line 949
Hundred == FInt(100)

(***************************************************************************)
(* The form, _build_gui: the entry keys and their default texts.           *)
(***************************************************************************)
GoalKeys == {"b_goal", "c_goal", "f_goal", "g_goal", "h_goal", "d_goal"}
Keys == GoalKeys \cup
        {"f_daily", "g_daily", "h_daily", "l3_cap", "l2_cap", "f_line_capa",
         "c_line_capa", "granule_line_capa", "s2_daily", "s2_emerg",
         "s1s2_pack_capa", "s1_hv_max_capa"}

FormDefaults ==
    [b_goal |-> Dec(800, 0), c_goal |-> Dec(1080, 0), f_goal |-> Dec(960, 0),
     f_daily |-> Dec(32, 4), g_goal |-> Dec(0, 0), g_daily |-> Dec(20, 0),
     h_goal |-> Dec(1200, 0), h_daily |-> Dec(40, 0), d_goal |-> Dec(800, 0),
     l3_cap |-> Dec(180, 0), l2_cap |-> Dec(64, 1), f_line_capa |-> Dec(32, 4),
     c_line_capa |-> Dec(36, 0), granule_line_capa |-> Dec(91, 6),
     s2_daily |-> Dec(89, 0), s2_emerg |-> Dec(150, 0),
     s1s2_pack_capa |-> Dec(100, 0), s1_hv_max_capa |-> Dec(400, 0)]

\* The form with the six target fields typed as 0.
ZeroTargetsForm == [k \in Keys |-> IF k \in GoalKeys THEN Zero ELSE FormDefaults[k]]

\* How many fields the user retypes (or the emergency box toggles) before
\* pressing the run button.
MaxEdits == 2

\* The values a field is retyped to.
Choices ==
    [b_goal |-> {Zero, Dec(800, 0)}, c_goal |-> {Zero, Dec(1080, 0)},
     f_goal |-> {Zero, Dec(0, 9), Dec(960, 0)}, g_goal |-> {Zero, Dec(500, 0)},
     h_goal |-> {Zero, Dec(0, 9), Dec(1200, 0)},
     d_goal |-> {Zero, Dec(0, 9), Dec(800, 0)},
     f_daily |-> {Zero}, g_daily |-> {Zero}, h_daily |-> {Zero, Dec(0, 3)},
     l3_cap |-> {Zero, Dec(20, 0)}, l2_cap |-> {Zero},
     f_line_capa |-> {Zero, Dec(0, 3)}, c_line_capa |-> {Zero},
     granule_line_capa |-> {Zero, Dec(0, 3)}, s2_daily |-> {Zero},
     s2_emerg |-> {}, s1s2_pack_capa |-> {Zero, Dec(64, 0)},
     s1_hv_max_capa |-> {Zero}]

\* Fields the user may leave with a text that is not a number.
UnparseableKeys == {"f_line_capa", "granule_line_capa"}

(***************************************************************************)
(* products_db and material_map, lines 449-495 and 523-529.  A missing     *)
(* key (None) is the empty string.                                         *)
(***************************************************************************)
None == ""

Pids == {"C_PELLET", "F_PELLET", "H_PELLET", "G_PELLET", "LV_PACK", "LLV_PACK",
         "HV_PACK"}

\* the products in the order of products_db, and so of product_status
PidOrder == <<"C_PELLET", "F_PELLET", "H_PELLET", "G_PELLET", "LV_PACK",
              "LLV_PACK", "HV_PACK">>

products_db ==
    [C_PELLET |-> [target_key |-> "c_goal", daily_limit_key |-> None,
                   recipe |-> <<[material_var_name |-> "LLV", qty_per_unit |-> Dec(1, 0)]>>],
     F_PELLET |-> [target_key |-> "f_goal", daily_limit_key |-> "f_daily",
                   recipe |-> <<[material_var_name |-> "NP3", qty_per_unit |-> Dec(1, 0)]>>],
     H_PELLET |-> [target_key |-> "h_goal", daily_limit_key |-> "h_daily",
                   recipe |-> <<[material_var_name |-> "s1_HV", qty_per_unit |-> Dec(0, 5)],
                                [material_var_name |-> "s2_LV", qty_per_unit |-> Dec(0, 5)]>>],
     G_PELLET |-> [target_key |-> "g_goal", daily_limit_key |-> "g_daily",
                   recipe |-> <<[material_var_name |-> "s1_HV", qty_per_unit |-> Dec(1, 0)]>>],
     LV_PACK |-> [target_key |-> "b_goal", daily_limit_key |-> None,
                  recipe |-> <<[material_var_name |-> "LV", qty_per_unit |-> Dec(1, 0)]>>],
     LLV_PACK |-> [target_key |-> "d_goal", daily_limit_key |-> None,
                   recipe |-> <<[material_var_name |-> "LLV", qty_per_unit |-> Dec(1, 0)]>>],
     HV_PACK |-> [target_key |-> None, daily_limit_key |-> None,
                  recipe |-> <<[material_var_name |-> "s1_HV", qty_per_unit |-> Dec(1, 0)]>>]]

material_map ==
    [s1_HV |-> <<"S1", "HV">>, s2_LV |-> <<"S2", "LV">>, LV |-> <<"S3", "LV">>,
     LLV |-> <<"S3", "LLV">>, NP3 |-> <<"S3", "NP3">>]

Materials == {<<"S1", "HV">>, <<"S1", "LV">>, <<"S1", "LLV">>,
              <<"S2", "HV">>, <<"S2", "LV">>, <<"S2", "LLV">>,
              <<"S3", "HV">>, <<"S3", "LV">>, <<"S3", "LLV">>, <<"S3", "NP3">>}

InitialStocks ==
    [m \in Materials |->
        CASE m = <<"S1", "HV">> -> LV_INIT
          [] m = <<"S2", "LV">> -> LV_INIT
          [] m = <<"S3", "LV">> -> LV_INIT
          [] m = <<"S3", "LLV">> -> LLV_INIT
          [] m = <<"S3", "NP3">> -> NP3_INIT_VAL
          [] OTHER -> Zero]

RawKeys == {"S3_LV", "LLV", "NP3", "HV_S1", "S2_LV"}
NoProduction == [k \in RawKeys |-> Zero]

VARIABLES
    entries,        \* self.entries: key -> the number typed in the field
    unparseable,    \* the keys whose text float() rejects
    emerg_var,      \* self.emerg_var
    edited,         \* the fields retyped since construction
    pc,             \* position in _run: "idle", "plan", the block about to run
                    \* ("S2_LV" .. "LLV_PACK", "check"), "summary", "done"
    day,            \* the loop variable of `for day in range(DAYS)`
    product_status, \* pid -> [goal_orig, left, packed_today, packed_sum]
    stocks,         \* <<site, material>> -> quantity
    switches,
    remaining_s1s2_capacity,
    remaining_granule_capacity,
    planned,        \* planned_h, planned_g, planned_hv, planned_f, planned_c, planned_lv, planned_llv
    required,       \* required_s1_hv, required_s2_lv, required_s3_lv, required_s3_llv, required_np3
    raw_production_today,
    levels,         \* the day's target stock levels
    campaign,       \* the locals of the S3 LV / NP3 campaign block
    summary,
    raw_production_sum  \* history: raw_production_today summed over the days
                        \* whose row has been inserted in tree_raw_prod

vars == <<entries, unparseable, emerg_var, edited, pc, day, product_status, stocks,
          switches, remaining_s1s2_capacity, remaining_granule_capacity, planned,
          required, raw_production_today, levels, campaign, summary,
          raw_production_sum>>

formVars == <<entries, unparseable, emerg_var, edited>>

(***************************************************************************)
(* Reading the form.                                                       *)
(***************************************************************************)
\* _get_entry_value, lines 265-272: the fallback when float() fails
GetEntryValue(key, fallback) ==
    IF key \in unparseable THEN fallback ELSE entries[key]


\* lines 498-508: a target that does not parse is 0; a product without a
\* target_key reads the text "0"
TargetOfKey(key) ==
    IF key = None THEN Zero
    ELSE IF key \in unparseable THEN Zero ELSE entries[key]

TargetGoal(pid) == TargetOfKey(products_db[pid].target_key)

\* lines 587-596, 639-641, 656, 675: the day's capacity inputs
s1s2_pack_capa == GetEntryValue("s1s2_pack_capa", PACK_S1_S2_COMBINED)
s1_hv_max == GetEntryValue("s1_hv_max_capa", S1_HV_MAX_CAPA)
h_daily_limit == GetEntryValue("h_daily", Zero)
g_daily_limit == GetEntryValue("g_daily", Zero)
f_daily_limit == GetEntryValue("f_daily", Zero)
granule_capacity == GetEntryValue("granule_line_capa", PACK_S3)
f_line_capacity == GetEntryValue("f_line_capa", PACK_S3)
c_line_capacity == GetEntryValue("c_line_capa", PACK_S3)
s2_lv_capacity ==
    IF emerg_var
    THEN FAdd(GetEntryValue("s2_daily", Zero), GetEntryValue("s2_emerg", Zero))
    ELSE GetEntryValue("s2_daily", Zero)
s3_lv_capacity == Max(Zero, GetEntryValue("l3_cap", PACK_S3))
s3_llv_capacity == GetEntryValue("l2_cap", PACK_S3)

\* Mutant of CapByDailyLimit: the daily limit applied even when it is 0 (unset).
CapByDailyLimitAlways(cap, daily_limit) == Min(cap, daily_limit)

\* `cap` further capped by a daily limit when one is set (lines 600-601,
\* 606-607, 614-615, 741-742, 749-750, 773-774)
CapByDailyLimit(cap, daily_limit) ==
    IF FGt(daily_limit, Zero) THEN Min(cap, daily_limit) ELSE cap

(***************************************************************************)
(* Init: the form as constructed, or with the six targets typed as 0.      *)
(* A local of _run that is not assigned yet is shown as 0.0; _run reads    *)
(* none of them before it assigns it.                                      *)
(***************************************************************************)
NoStatus == [pid \in Pids |-> [goal_orig |-> Zero, left |-> Zero,
                               packed_today |-> Zero, packed_sum |-> Zero]]
NoPlan == [h |-> Zero, g |-> Zero, hv |-> Zero, f |-> Zero, c |-> Zero,
           lv |-> Zero, llv |-> Zero]
NoRequired == [s1_hv |-> Zero, s2_lv |-> Zero, s3_lv |-> Zero, s3_llv |-> Zero,
               np3 |-> Zero]
NoLevels == [s2_lv |-> Zero, s3_lv |-> Zero, s3_llv |-> Zero, np3 |-> Zero,
             s1_hv |-> Zero]
NoCampaign == [lv_for_stock |-> Zero, remaining_lv_capacity |-> Zero,
               remaining_lv_inventory_room |-> Zero, potential_np3 |-> Zero,
               np3_produced |-> Zero, lv_for_np3 |-> Zero]
NoSummary == [total_goals_sum |-> Zero, relevant_produced_sum |-> Zero,
              all_achieved |-> TRUE, overall_achievement_rate |-> Zero]

Init ==
    /\ entries \in {FormDefaults, ZeroTargetsForm}
    /\ unparseable = {}
    /\ emerg_var = FALSE
    /\ edited = {}
    /\ pc = "idle"
    /\ day = 0
    /\ product_status = NoStatus
    /\ stocks = [m \in Materials |-> Zero]
    /\ switches = 0
    /\ remaining_s1s2_capacity = Zero
    /\ remaining_granule_capacity = Zero
    /\ planned = NoPlan
    /\ required = NoRequired
    /\ raw_production_today = NoProduction
    /\ levels = NoLevels
    /\ campaign = NoCampaign
    /\ summary = NoSummary
    /\ raw_production_sum = NoProduction

runVars == <<pc, day, product_status, stocks, switches, remaining_s1s2_capacity,
             remaining_granule_capacity, planned, required, raw_production_today,
             levels, campaign, summary, raw_production_sum>>

\* The user retypes one field.
EditEntry ==
    /\ pc = "idle"
    /\ Cardinality(edited) < MaxEdits
    /\ \E k \in Keys \ edited :
         \E v \in Choices[k] \ {entries[k]} :
            /\ entries' = [entries EXCEPT ![k] = v]
            /\ edited' = edited \cup {k}
    /\ UNCHANGED <<unparseable, emerg_var>>
    /\ UNCHANGED runVars

\* The user leaves a text that is not a number in one field.
EditUnparseable ==
    /\ pc = "idle"
    /\ Cardinality(edited) < MaxEdits
    /\ \E k \in UnparseableKeys \ edited :
            /\ unparseable' = unparseable \cup {k}
            /\ edited' = edited \cup {k}
    /\ UNCHANGED <<entries, emerg_var>>
    /\ UNCHANGED runVars

\* The user ticks the emergency mode box.
ToggleEmergency ==
    /\ pc = "idle"
    /\ Cardinality(edited) < MaxEdits
    /\ "emerg" \notin edited
    /\ emerg_var' = ~emerg_var
    /\ edited' = edited \cup {"emerg"}
    /\ UNCHANGED <<entries, unparseable>>
    /\ UNCHANGED runVars

\* lines 509-515
NewStatus(target_goal) ==
    [goal_orig |-> target_goal, left |-> target_goal, packed_today |-> Zero,
     packed_sum |-> Zero]

\* The run button: _run up to the day loop, lines 436-531.
Run ==
    /\ pc = "idle"
    /\ product_status' = [pid \in Pids |-> NewStatus(TargetGoal(pid))]
    /\ stocks' = InitialStocks
    /\ switches' = 0
    /\ day' = 0
    /\ raw_production_sum' = NoProduction
    /\ pc' = "plan"
    /\ UNCHANGED formVars
    /\ UNCHANGED <<remaining_s1s2_capacity, remaining_granule_capacity, planned,
                   required, raw_production_today, levels, campaign, summary>>

(***************************************************************************)
(* Start of a day, lines 584-637: packed_today reset, the capacities read, *)
(* the planned and required quantities computed.  The target levels and    *)
(* the locals of the campaign block are not assigned here: each keeps the  *)
(* value of the day before until its own block assigns it again.           *)
(***************************************************************************)
PlannedQuantities ==
    LET planned_h == Min(product_status["H_PELLET"].left,
                         CapByDailyLimit(s1s2_pack_capa, h_daily_limit))
        after_h == Max(Zero, FSub(s1s2_pack_capa, planned_h))
        planned_g == Min(product_status["G_PELLET"].left,
                         CapByDailyLimit(after_h, g_daily_limit))
        after_g == Max(Zero, FSub(after_h, planned_g))
        planned_hv == Max(Zero, Min(after_g, s1_hv_max))
        planned_f == Min(product_status["F_PELLET"].left,
                         CapByDailyLimit(f_line_capacity, f_daily_limit))
        planned_c == Min(product_status["C_PELLET"].left, c_line_capacity)
        planned_lv == Min(product_status["LV_PACK"].left, granule_capacity)
        granule_after_lv == Max(Zero, FSub(granule_capacity, planned_lv))
        planned_llv == Min(product_status["LLV_PACK"].left, granule_after_lv)
    IN [h |-> planned_h, g |-> planned_g, hv |-> planned_hv, f |-> planned_f,
        c |-> planned_c, lv |-> planned_lv, llv |-> planned_llv]

\* lines 625-629
RequiredOf(p) ==
    [s1_hv |-> FAdd(FAdd(FMul(Half, p.h), p.g), p.hv),
     s2_lv |-> FMul(Half, p.h),
     s3_lv |-> p.lv,
     s3_llv |-> FAdd(p.c, p.llv),
     np3 |-> p.f]

Plan ==
    /\ pc = "plan"
    /\ product_status' =
         [pid \in Pids |-> [product_status[pid] EXCEPT !.packed_today = Zero]]
    /\ remaining_s1s2_capacity' = s1s2_pack_capa
    /\ planned' = PlannedQuantities
    /\ required' = RequiredOf(planned')
    /\ raw_production_today' = NoProduction
    /\ pc' = "S2_LV"
    /\ UNCHANGED <<formVars, raw_production_sum>>
    /\ UNCHANGED <<day, stocks, switches, summary, remaining_granule_capacity,
                   levels, campaign>>

(***************************************************************************)
(* Replenishment, lines 639-737.                                           *)
(***************************************************************************)
\* Mutant of ReplenishAmount: the line capacity is forgotten.
ReplenishAmountIgnoringLine(target, current, capacity, ceiling) ==
    IF FLt(current, target)
    THEN Max(Zero, Min(FSub(target, current), FSub(ceiling, current)))
    ELSE Zero

\* The shape shared by the S2 LV, S3 LLV and S1 HV blocks (lines 646-654,
\* 682-690, 729-737): nothing unless the stock is below the target level,
\* and only a positive amount is deposited.
ReplenishAmount(target, current, capacity, ceiling) ==
    IF FLt(current, target)
    THEN Max(Zero, Min3(FSub(target, current), Max(Zero, capacity),
                        FSub(ceiling, current)))
    ELSE Zero

\* `if amount > 0: stocks[m] += amount`
Deposit(m, amount) ==
    IF FGt(amount, Zero) THEN [stocks EXCEPT ![m] = FAdd(@, amount)] ELSE stocks

\* Mutant of TargetS2LV: the day's requirement is forgotten, only the minimum
\* trigger stock is aimed at.
TargetS2LVTriggerOnly ==
    IF FGt(S2_LV_MIN_STOCK_TRIGGER, SILO2_CAP) THEN SILO2_CAP
    ELSE S2_LV_MIN_STOCK_TRIGGER

\* lines 642-644
TargetS2LV ==
    LET t == Max(required.s2_lv, S2_LV_MIN_STOCK_TRIGGER)
    IN IF FGt(t, SILO2_CAP) THEN SILO2_CAP ELSE t

\* lines 652-654, 688-690, 735-737: the amount joins the stock and is the
\* day's tally
Replenish(m, key, amount) ==
    /\ stocks' = Deposit(m, amount)
    /\ raw_production_today' = [raw_production_today EXCEPT ![key] = amount]

\* lines 639-654
ReplenishS2LV ==
    /\ pc = "S2_LV"
    /\ Replenish(<<"S2", "LV">>, "S2_LV",
                 ReplenishAmount(TargetS2LV, stocks[<<"S2", "LV">>], s2_lv_capacity,
                                 SILO2_CAP))
    /\ levels' = [levels EXCEPT !.s2_lv = TargetS2LV]
    /\ pc' = "S3_LV"
    /\ UNCHANGED <<formVars, raw_production_sum>>
    /\ UNCHANGED <<day, product_status, switches, remaining_s1s2_capacity,
                   remaining_granule_capacity, planned, required, campaign, summary>>

\* lines 657-660
TargetS3LVBase ==
    Min(INVENTORY_CAP,
        FAdd(required.s3_lv, FMul(planned.lv, BufferDays)))

\* Mutant of LvForStock: the S3 LV line capacity is forgotten.
LvForStockIgnoringLine ==
    LET current_s3_lv == stocks[<<"S3", "LV">>]
    IN Min(Max(Zero, FSub(TargetS3LVBase, current_s3_lv)),
           Max(Zero, FSub(INVENTORY_CAP, current_s3_lv)))

\* lines 661-667
LvForStock ==
    LET current_s3_lv == stocks[<<"S3", "LV">>]
        lv_needed_for_stock == Max(Zero, FSub(TargetS3LVBase, current_s3_lv))
    IN Min3(lv_needed_for_stock, s3_lv_capacity,
            Max(Zero, FSub(INVENTORY_CAP, current_s3_lv)))

\* lines 668-673
StockLV(lv_for_stock) ==
    /\ stocks' = Deposit(<<"S3", "LV">>, lv_for_stock)
    /\ raw_production_today' =
          IF FGt(lv_for_stock, Zero)
          THEN [raw_production_today EXCEPT !["S3_LV"] = FAdd(@, lv_for_stock)]
          ELSE raw_production_today
    /\ campaign' =
          [campaign EXCEPT
             !.lv_for_stock = lv_for_stock,
             !.remaining_lv_capacity =
                  Max(Zero, FSub(s3_lv_capacity, raw_production_today'["S3_LV"])),
             !.remaining_lv_inventory_room =
                  Max(Zero, FSub(INVENTORY_CAP, stocks'[<<"S3", "LV">>]))]

\* lines 656-673
ReplenishS3LV ==
    /\ pc = "S3_LV"
    /\ StockLV(LvForStock)
    /\ levels' = [levels EXCEPT !.s3_lv = TargetS3LVBase]
    /\ pc' = "S3_LLV"
    /\ UNCHANGED <<formVars, raw_production_sum>>
    /\ UNCHANGED <<day, product_status, switches, remaining_s1s2_capacity,
                   remaining_granule_capacity, planned, required, summary>>

\* lines 676-680
TargetS3LLV ==
    LET llv_buffer == IF FGt(product_status["C_PELLET"].left, Zero)
                      THEN LLV_SAFETY_STOCK_FOR_C ELSE Zero
    IN Min(INVENTORY_CAP,
           FAdd(FAdd(required.s3_llv,
                     FMul(planned.llv, BufferDays)),
                llv_buffer))

\* lines 675-690
ReplenishS3LLV ==
    /\ pc = "S3_LLV"
    /\ Replenish(<<"S3", "LLV">>, "LLV",
                 ReplenishAmount(TargetS3LLV, stocks[<<"S3", "LLV">>], s3_llv_capacity,
                                 INVENTORY_CAP))
    /\ levels' = [levels EXCEPT !.s3_llv = TargetS3LLV]
    /\ pc' = "NP3"
    /\ UNCHANGED <<formVars, raw_production_sum>>
    /\ UNCHANGED <<day, product_status, switches, remaining_s1s2_capacity,
                   remaining_granule_capacity, planned, required, campaign, summary>>

\* lines 693-697
Np3TargetLevel ==
    LET base == FAdd(required.np3, FMul(planned.f, BufferDays))
        raised == IF FGt(product_status["F_PELLET"].left, Zero)
                  THEN Max(Max(base, NP3_MIN_STOCK_BEFORE_CAMPAIGN),
                           NP3_TARGET_BATCH_PRODUCTION_SIZE)
                  ELSE base
    IN Min(NP3_MAX_INV, raised)

\* lines 692, 698-701
PotentialNp3 ==
    LET current_np3 == stocks[<<"S3", "NP3">>]
        np3_deficit == Max(Zero, FSub(Np3TargetLevel, current_np3))
        np3_capacity == Min(Max(Zero, NP3_TARGET_BATCH_PRODUCTION_SIZE),
                            Max(Zero, FSub(NP3_MAX_INV, current_np3)))
    IN Min(np3_deficit, np3_capacity)

\* lines 702-711
Np3ProducedOf(potential_np3) ==
    IF /\ FGt(potential_np3, Zero)
       /\ FGt(NP3_PRODUCTION_RATE_IN_CAMPAIGN, Zero)
       /\ FGt(campaign.remaining_lv_capacity, Zero)
       /\ FGt(campaign.remaining_lv_inventory_room, Zero)
    THEN LET lv_capacity_for_np3 == Min(campaign.remaining_lv_capacity,
                                        campaign.remaining_lv_inventory_room)
             max_np3_based_on_lv ==
                 FMul(lv_capacity_for_np3, NP3_PRODUCTION_RATE_IN_CAMPAIGN)
         IN Min(potential_np3, max_np3_based_on_lv)
    ELSE Zero

\* Mutant of Np3Produced: the LV inventory room is forgotten, only the LV line
\* capacity bounds the campaign.
Np3ProducedIgnoringRoom ==
    IF FGt(PotentialNp3, Zero) /\ FGt(campaign.remaining_lv_capacity, Zero)
    THEN Min(PotentialNp3,
             FMul(campaign.remaining_lv_capacity, NP3_PRODUCTION_RATE_IN_CAMPAIGN))
    ELSE Zero

\* np3_produced, lines 702-711
Np3Produced == Np3ProducedOf(PotentialNp3)

\* Mutant of LvForNp3: the conversion rate is forgotten.
LvForNp3NoRate(np3_produced) == np3_produced

\* line 713
LvForNp3(np3_produced) == FDiv(np3_produced, NP3_PRODUCTION_RATE_IN_CAMPAIGN)

\* lines 712-721: np3_produced of NP3 made from lv_for_np3 of LV
CampaignMakes(potential_np3, np3_produced, lv_for_np3) ==
    /\ stocks' = [stocks EXCEPT ![<<"S3", "LV">>] = FAdd(@, lv_for_np3),
                                ![<<"S3", "NP3">>] = FAdd(@, np3_produced)]
    /\ raw_production_today' =
          [raw_production_today EXCEPT !["S3_LV"] = FAdd(@, lv_for_np3),
                                       !["NP3"] = np3_produced]
    /\ campaign' =
          [campaign EXCEPT
             !.potential_np3 = potential_np3,
             !.np3_produced = np3_produced,
             !.lv_for_np3 = lv_for_np3,
             !.remaining_lv_capacity = Max(Zero, FSub(@, lv_for_np3)),
             !.remaining_lv_inventory_room =
                  Max(Zero, FSub(INVENTORY_CAP, stocks'[<<"S3", "LV">>]))]

\* lines 701-721: lv_for_np3 is assigned only when NP3 is made
CampaignStep(potential_np3, np3_produced) ==
    IF FGt(np3_produced, Zero)
    THEN CampaignMakes(potential_np3, np3_produced, LvForNp3(np3_produced))
    ELSE /\ campaign' = [campaign EXCEPT !.potential_np3 = potential_np3,
                                         !.np3_produced = np3_produced]
         /\ UNCHANGED <<stocks, raw_production_today>>

\* lines 692-721
CampaignNP3 ==
    /\ pc = "NP3"
    /\ CampaignStep(PotentialNp3, Np3Produced)
    /\ levels' = [levels EXCEPT !.np3 = Np3TargetLevel]
    /\ pc' = "S1_HV"
    /\ UNCHANGED <<formVars, raw_production_sum>>
    /\ UNCHANGED <<day, product_status, switches, remaining_s1s2_capacity,
                   remaining_granule_capacity, planned, required, summary>>

\* lines 724-727
TargetS1HV ==
    Min(INVENTORY_CAP,
        FAdd(required.s1_hv, FMul(planned.hv, BufferDays)))

\* lines 723-737
ReplenishS1HV ==
    /\ pc = "S1_HV"
    /\ Replenish(<<"S1", "HV">>, "HV_S1",
                 ReplenishAmount(TargetS1HV, stocks[<<"S1", "HV">>], s1_hv_max,
                                 INVENTORY_CAP))
    /\ levels' = [levels EXCEPT !.s1_hv = TargetS1HV]
    /\ pc' = "H_PELLET"
    /\ UNCHANGED <<formVars, raw_production_sum>>
    /\ UNCHANGED <<day, product_status, switches, remaining_s1s2_capacity,
                   remaining_granule_capacity, planned, required, campaign, summary>>

(***************************************************************************)
(* schedule_product, lines 533-578.                                        *)
(***************************************************************************)
\* Mutant of AllowedByCapacity: the remaining target is forgotten when a
\* capacity is given.
AllowedByCapacityIgnoringGoal(goal_left, capacity_limit) ==
    IF FGt(capacity_limit, Zero) THEN capacity_limit ELSE goal_left

\* lines 543-545: a capacity_limit that is not positive does not limit
AllowedByCapacity(goal_left, capacity_limit) ==
    IF FGt(capacity_limit, Zero) THEN Min(goal_left, capacity_limit) ELSE goal_left

\* Mutant of AvailableQty: no safety floor for C_PELLET.
AvailableQtyNoFloor(pid, m) == stocks[m]

\* lines 553-555: the stock of an ingredient as the product may use it
AvailableQty(pid, m) ==
    IF pid = "C_PELLET" /\ m = <<"S3", "LLV">>
    THEN Max(Zero, FSub(stocks[m], LLV_SAFETY_STOCK_FOR_C))
    ELSE stocks[m]

\* lines 547-558: available_qty / qty_per_unit, over the recipe
RECURSIVE MaxProducible(_, _, _)
MaxProducible(pid, recipe, acc) ==
    IF recipe = <<>> THEN acc
    ELSE LET ingredient == Head(recipe)
             m == material_map[ingredient.material_var_name]
         IN MaxProducible(pid, Tail(recipe),
                          IF FGt(ingredient.qty_per_unit, Zero)
                          THEN Min(acc, FDiv(AvailableQty(pid, m), ingredient.qty_per_unit))
                          ELSE acc)

\* Mutant of Produced: the remaining target is not consulted, the capacity and
\* the stock alone decide the amount.
ProducedIgnoringTarget(pid, capacity_limit) ==
    IF pid = "HV_PACK" THEN Zero
    ELSE IF FGt(capacity_limit, Zero)
         THEN Max(Zero, MaxProducible(pid, products_db[pid].recipe, capacity_limit))
         ELSE Zero

\* lines 534-562: the amount schedule_product returns
Produced(pid, capacity_limit) ==
    IF pid = "HV_PACK" THEN Zero
    ELSE LET goal_left == product_status[pid].left
         IN IF FLe(goal_left, Zero) THEN Zero
            ELSE LET allowed_by_capacity == AllowedByCapacity(goal_left, capacity_limit)
                     max_producible ==
                         MaxProducible(pid, products_db[pid].recipe, allowed_by_capacity)
                 IN Max(Zero, Min(allowed_by_capacity, max_producible))

\* Mutant of StatusAfter: left recomputed from the original target and today's
\* amount instead of decremented.
StatusAfterFromOriginal(pid, produced) ==
    IF FGt(produced, Zero)
    THEN [product_status EXCEPT
            ![pid].packed_today = produced,
            ![pid].left = Max(Zero, FSub(product_status[pid].goal_orig, produced)),
            ![pid].packed_sum = FAdd(@, produced)]
    ELSE product_status

\* lines 564-566
StatusAfter(pid, produced) ==
    IF FGt(produced, Zero)
    THEN [product_status EXCEPT
            ![pid].packed_today = produced,
            ![pid].left = Max(Zero, FSub(@, produced)),
            ![pid].packed_sum = FAdd(@, produced)]
    ELSE product_status

\* Mutant of Draw: qty_per_unit is forgotten.
DrawWhole(ingredient, produced) == produced

\* qty_per_unit * produced
Draw(ingredient, produced) == FMul(ingredient.qty_per_unit, produced)

\* lines 568-576: the withdrawal of every ingredient, floored at 0
RECURSIVE Withdraw(_, _, _)
Withdraw(st, recipe, produced) ==
    IF recipe = <<>> THEN st
    ELSE LET ingredient == Head(recipe)
             m == material_map[ingredient.material_var_name]
         IN Withdraw([st EXCEPT ![m] = Max(Zero, FSub(@, Draw(ingredient, produced)))],
                     Tail(recipe), produced)

\* Mutant of StocksAfter: the withdrawal loop stops after the first ingredient.
StocksAfterFirstIngredient(pid, produced) ==
    IF FGt(produced, Zero)
    THEN Withdraw(stocks, <<Head(products_db[pid].recipe)>>, produced)
    ELSE stocks

\* lines 568-576, reached only when produced > 0 (lines 561-562)
StocksAfter(pid, produced) ==
    IF FGt(produced, Zero) THEN Withdraw(stocks, products_db[pid].recipe, produced)
    ELSE stocks

\* `if packed > 0: remaining = max(0.0, remaining - packed)`
PoolAfter(remaining, packed) ==
    IF FGt(packed, Zero) THEN Max(Zero, FSub(remaining, packed)) ELSE remaining

SwitchesAfter(packed) == IF FGt(packed, Zero) THEN switches + 1 ELSE switches

(***************************************************************************)
(* The seven allocation steps, lines 739-796.                              *)
(***************************************************************************)
\* what schedule_product did for the amount it returned, and the switch
\* counted for it
Packed(pid, packed) ==
    /\ product_status' = StatusAfter(pid, packed)
    /\ stocks' = StocksAfter(pid, packed)
    /\ switches' = SwitchesAfter(packed)

\* a step of the Site-1/Site-2 pool, lines 743-746 and 751-754
PackedS1S2(pid, packed) ==
    /\ Packed(pid, packed)
    /\ remaining_s1s2_capacity' = PoolAfter(remaining_s1s2_capacity, packed)

\* a step of the granule line, lines 785-788 and 791-796, from what the
\* line has left
PackedGranule(pid, left, packed) ==
    /\ Packed(pid, packed)
    /\ remaining_granule_capacity' = PoolAfter(left, packed)

\* lines 740-746
AllocH ==
    /\ pc = "H_PELLET"
    /\ LET h_capacity == CapByDailyLimit(remaining_s1s2_capacity, h_daily_limit)
       IN PackedS1S2("H_PELLET", Produced("H_PELLET", h_capacity))
    /\ pc' = "G_PELLET"
    /\ UNCHANGED <<formVars, raw_production_sum>>
    /\ UNCHANGED <<day, remaining_granule_capacity, planned, required,
                   raw_production_today, levels, campaign, summary>>

\* lines 748-754
AllocG ==
    /\ pc = "G_PELLET"
    /\ LET g_capacity == CapByDailyLimit(remaining_s1s2_capacity, g_daily_limit)
       IN PackedS1S2("G_PELLET", Produced("G_PELLET", g_capacity))
    /\ pc' = "HV_PACK"
    /\ UNCHANGED <<formVars, raw_production_sum>>
    /\ UNCHANGED <<day, remaining_granule_capacity, planned, required,
                   raw_production_today, levels, campaign, summary>>

\* lines 757-761
HvAmount ==
    LET hv_available == stocks[<<"S1", "HV">>]
        hv_capacity == IF FGt(s1_hv_max, Zero)
                       THEN Min(remaining_s1s2_capacity, s1_hv_max)
                       ELSE remaining_s1s2_capacity
    IN Max(Zero, Min(hv_available, hv_capacity))

\* lines 762-769
PackedHV(hv_amount) ==
    /\ product_status' =
          [product_status EXCEPT
             !["HV_PACK"].packed_today = hv_amount,
             !["HV_PACK"].packed_sum =
                  IF FGt(hv_amount, Zero) THEN FAdd(@, hv_amount) ELSE @]
    /\ stocks' = IF FGt(hv_amount, Zero)
                 THEN [stocks EXCEPT ![<<"S1", "HV">>] = Max(Zero, FSub(@, hv_amount))]
                 ELSE stocks
    /\ remaining_s1s2_capacity' = PoolAfter(remaining_s1s2_capacity, hv_amount)
    /\ switches' = SwitchesAfter(hv_amount)

\* lines 756-769
AllocHV ==
    /\ pc = "HV_PACK"
    /\ PackedHV(HvAmount)
    /\ pc' = "F_PELLET"
    /\ UNCHANGED <<formVars, raw_production_sum>>
    /\ UNCHANGED <<day, remaining_granule_capacity, planned, required,
                   raw_production_today, levels, campaign, summary>>

\* Mutant of AllocF: the C pellet step that follows is skipped.
AllocFSkippingC ==
    /\ pc = "F_PELLET"
    /\ LET f_capacity == CapByDailyLimit(f_line_capacity, f_daily_limit)
       IN Packed("F_PELLET", Produced("F_PELLET", f_capacity))
    /\ pc' = "LV_PACK"
    /\ UNCHANGED <<formVars, raw_production_sum>>
    /\ UNCHANGED <<day, remaining_s1s2_capacity, remaining_granule_capacity, planned,
                   required, raw_production_today, levels, campaign, summary>>

\* lines 772-777
AllocF ==
    /\ pc = "F_PELLET"
    /\ LET f_capacity == CapByDailyLimit(f_line_capacity, f_daily_limit)
       IN Packed("F_PELLET", Produced("F_PELLET", f_capacity))
    /\ pc' = "C_PELLET"
    /\ UNCHANGED <<formVars, raw_production_sum>>
    /\ UNCHANGED <<day, remaining_s1s2_capacity, remaining_granule_capacity, planned,
                   required, raw_production_today, levels, campaign, summary>>

\* lines 779-781
AllocC ==
    /\ pc = "C_PELLET"
    /\ Packed("C_PELLET", Produced("C_PELLET", c_line_capacity))
    /\ pc' = "LV_PACK"
    /\ UNCHANGED <<formVars, raw_production_sum>>
    /\ UNCHANGED <<day, remaining_s1s2_capacity, remaining_granule_capacity, planned,
                   required, raw_production_today, levels, campaign, summary>>

\* lines 783-788
AllocLV ==
    /\ pc = "LV_PACK"
    /\ LET lv_capacity == Min(granule_capacity, product_status["LV_PACK"].left)
       IN PackedGranule("LV_PACK", granule_capacity, Produced("LV_PACK", lv_capacity))
    /\ pc' = "LLV_PACK"
    /\ UNCHANGED <<formVars, raw_production_sum>>
    /\ UNCHANGED <<day, remaining_s1s2_capacity, planned, required,
                   raw_production_today, levels, campaign, summary>>

\* lines 790-796
AllocLLV ==
    /\ pc = "LLV_PACK"
    /\ LET llv_capacity == Min(remaining_granule_capacity,
                               product_status["LLV_PACK"].left)
       IN PackedGranule("LLV_PACK", remaining_granule_capacity,
                        Produced("LLV_PACK", llv_capacity))
    /\ pc' = "check"
    /\ UNCHANGED <<formVars, raw_production_sum>>
    /\ UNCHANGED <<day, remaining_s1s2_capacity, planned, required,
                   raw_production_today, levels, campaign, summary>>

(***************************************************************************)
(* End of the day and the summary, lines 900-961.                          *)
(***************************************************************************)
\* Mutant of RemainingTargets: the original target is tested instead of the
\* remaining one.
RemainingTargetsByGoal ==
    \E pid \in Pids :
        /\ products_db[pid].target_key /= None
        /\ AboveTolerance(product_status[pid].goal_orig)

\* lines 900-904
RemainingTargets ==
    \E pid \in Pids :
        /\ products_db[pid].target_key /= None
        /\ AboveTolerance(product_status[pid].left)

\* lines 905-906 and the end of `for day in range(DAYS)`
EndOfDay ==
    /\ pc = "check"
    /\ IF ~RemainingTargets
       THEN pc' = "summary" /\ day' = day
       ELSE IF day + 1 < DAYS
            THEN pc' = "plan" /\ day' = day + 1
            ELSE pc' = "summary" /\ day' = day
    /\ raw_production_sum' =
          [k \in RawKeys |-> FAdd(raw_production_sum[k], raw_production_today[k])]
    /\ UNCHANGED formVars
    /\ UNCHANGED <<product_status, stocks, switches, remaining_s1s2_capacity,
                   remaining_granule_capacity, planned, required,
                   raw_production_today, levels, campaign, summary>>

\* f(pid) summed over the first n products of product_status, from 0.0
RECURSIVE SumOver(_, _)
SumOver(n, f) ==
    IF n = 0 THEN Zero ELSE FAdd(SumOver(n - 1, f), f[PidOrder[n]])

\* lines 920-926
TotalGoalsSum ==
    SumOver(Len(PidOrder), [pid \in Pids |->
        IF FGt(product_status[pid].goal_orig, Zero)
        THEN product_status[pid].goal_orig ELSE Zero])

\* lines 943-944
RelevantProducedSum ==
    SumOver(Len(PidOrder), [pid \in Pids |->
        IF FGt(product_status[pid].goal_orig, Zero)
        THEN product_status[pid].packed_sum ELSE Zero])

\* lines 924-928
AllAchieved ==
    \A pid \in Pids :
        ~(FGt(product_status[pid].goal_orig, Zero)
          /\ AboveTolerance(Max(Zero, product_status[pid].left)))

\* lines 946-950: the rate in percent
OverallAchievementRate ==
    IF FGt(TotalGoalsSum, Zero)
    THEN FMul(FDiv(RelevantProducedSum, TotalGoalsSum), Hundred)
    ELSE IF FGt(RelevantProducedSum, Zero) THEN Hundred ELSE Zero

\* lines 908-961
Summarise ==
    /\ pc = "summary"
    /\ summary' = [total_goals_sum |-> TotalGoalsSum,
                   relevant_produced_sum |-> RelevantProducedSum,
                   all_achieved |-> AllAchieved,
                   overall_achievement_rate |-> OverallAchievementRate]
    /\ pc' = "done"
    /\ UNCHANGED formVars
    /\ UNCHANGED <<day, product_status, stocks, switches, remaining_s1s2_capacity,
                   remaining_granule_capacity, planned, required,
                   raw_production_today, levels, campaign, raw_production_sum>>

Next ==
    \/ EditEntry
    \/ EditUnparseable
    \/ ToggleEmergency
    \/ Run
    \/ Plan
    \/ ReplenishS2LV
    \/ ReplenishS3LV
    \/ ReplenishS3LLV
    \/ CampaignNP3
    \/ ReplenishS1HV
    \/ AllocH
    \/ AllocG
    \/ AllocHV
    \/ AllocF
    \/ AllocC
    \/ AllocLV
    \/ AllocLLV
    \/ EndOfDay
    \/ Summarise

Spec == Init /\ [][Next]_vars

(***************************************************************************)
(* The claims.  The quantities they name are floats, compared and combined *)
(* with the float operations above.                                        *)
(***************************************************************************)
Running == pc /= "idle"
Today(pid) == product_status[pid].packed_today
Left(pid) == product_status[pid].left
TargetedPids == {pid \in Pids : products_db[pid].target_key /= None}
AllocSteps == {"H_PELLET", "G_PELLET", "HV_PACK", "F_PELLET", "C_PELLET",
               "LV_PACK", "LLV_PACK"}

\* The numbers the claims name.
N2 == FInt(2)
N3 == FInt(3)
N30 == FInt(30)
N50 == FInt(50)
N89 == FInt(89)
N100 == FInt(100)
N300 == FInt(300)
N320 == FInt(320)
N350 == FInt(350)
N400 == FInt(400)
N500 == FInt(500)
N1200 == FInt(1200)
Milli == FromDecimal(1, 3)
\* The floating tolerance of the accounting identities, 1e-9.
Eps == FromDecimal(1, 9)

\* Equality of two quantities up to a floating-point residue.
FAbs(a) == IF a.sign < 0 THEN FNeg(a) ELSE a
Within(a, b, tol) == FLe(FAbs(FSub(a, b)), tol)

\* C1 (pool conservation): on every day the amounts allocated to H pellet,
\* G pellet and HV direct pack together are at most the S1+S2 pool ceiling,
\* and the amounts allocated to LV pack and LLV pack together are at most the
\* granule pool ceiling.  Stated for positive ceilings only, the reading most
\* favourable to the code (a ceiling typed as 0 is not held against it), and
\* up to the floating tolerance.
C1_PoolConservation ==
    Running =>
        /\ FGt(s1s2_pack_capa, Zero) =>
              FLe(FAdd(FAdd(Today("H_PELLET"), Today("G_PELLET")), Today("HV_PACK")),
                  FAdd(s1s2_pack_capa, Eps))
        /\ FGt(granule_capacity, Zero) =>
              FLe(FAdd(Today("LV_PACK"), Today("LLV_PACK")),
                  FAdd(granule_capacity, Eps))

\* The ceiling of a stock: SILO2_CAP for Site-2 LV, NP3_MAX_INV for NP3,
\* INVENTORY_CAP otherwise.
Ceiling(m) ==
    CASE m = <<"S2", "LV">> -> N300
      [] m = <<"S3", "NP3">> -> N350
      [] OTHER -> N500

\* C2 (stock bounds): in every state of a run, after each deposit and each
\* withdrawal, every stock is at least 0 and at most its ceiling (300 for
\* Site-2 LV, 350 for NP3, 500 for the others), the Site-3 LV stock after the
\* LV made for the NP3 campaign included.
C2_StockBounds ==
    Running => \A m \in Materials : FLe(Zero, stocks[m]) /\ FLe(stocks[m], Ceiling(m))

\* C2 witness: the campaign has just added LV and the Site-3 LV stock stands
\* at its ceiling.
C2_Witness ==
    /\ pc = "S1_HV"
    /\ FGt(campaign.np3_produced, Zero)
    /\ FGt(campaign.lv_for_np3, Zero)
    /\ stocks[<<"S3", "LV">>] = N500

\* packed_sum + left is goal_orig within the floating tolerance
Accounted(pid) ==
    Within(FAdd(product_status[pid].packed_sum, product_status[pid].left),
           product_status[pid].goal_orig, Eps)

\* C3 as claimed: for each product of the product table, packed_sum + left
\* equals goal_orig (within the floating tolerance) at all times.
C3_TargetAccountingAllProducts ==
    Running => \A pid \in Pids : Accounted(pid)

\* C3 as amended: for each product that has a target (every product but the
\* no-target HV direct pack), packed_sum + left equals goal_orig within the
\* floating tolerance at all times, so that none of them is produced beyond
\* its original target by more than that tolerance.
C3_TargetAccounting ==
    Running =>
        \A pid \in TargetedPids :
            /\ Accounted(pid)
            /\ FLe(product_status[pid].packed_sum,
                   FAdd(product_status[pid].goal_orig, Eps))

\* C3 witness: a targeted product whose amounts have left a rounding residue
\* (packed_sum + left is not goal_orig to the last bit), and the HV direct
\* pack with output too.
C3_Witness ==
    /\ \E pid \in TargetedPids :
          /\ FGt(product_status[pid].packed_sum, Zero)
          /\ FAdd(product_status[pid].packed_sum, product_status[pid].left)
                /= product_status[pid].goal_orig
    /\ FGt(product_status["HV_PACK"].packed_sum, Zero)

\* C4 (target monotonicity): in a run started with non-negative targets, no
\* step of the run increases the remaining target of a product, and the
\* remaining target is never negative.
C4_TargetMonotone ==
    [][Running /\ (\A pid \in Pids : FGe(product_status[pid].goal_orig, Zero)) =>
          \A pid \in Pids :
              /\ FLe(product_status'[pid].left, product_status[pid].left)
              /\ FGe(product_status'[pid].left, Zero)]_vars

\* C4 witness: on a later day a product has had its remaining target
\* decremented to 0 while another is decremented but still open.
C4_Witness ==
    /\ day > 0
    /\ \E pid \in Pids :
          /\ FGt(product_status[pid].goal_orig, Zero)
          /\ Left(pid) = Zero
          /\ FGt(Today(pid), Zero)
    /\ \E pid \in Pids :
          FLt(Zero, Left(pid)) /\ FLt(Left(pid), product_status[pid].goal_orig)

\* The recipes as the claim states them: the stock m that `a` of product pid
\* draws.
ClaimedDraw(pid, m, a) ==
    CASE pid = "H_PELLET" /\ m \in {<<"S1", "HV">>, <<"S2", "LV">>} -> FMul(Half, a)
      [] pid = "G_PELLET" /\ m = <<"S1", "HV">> -> a
      [] pid = "HV_PACK" /\ m = <<"S1", "HV">> -> a
      [] pid = "F_PELLET" /\ m = <<"S3", "NP3">> -> a
      [] pid = "C_PELLET" /\ m = <<"S3", "LLV">> -> a
      [] pid = "LV_PACK" /\ m = <<"S3", "LV">> -> a
      [] pid = "LLV_PACK" /\ m = <<"S3", "LLV">> -> a
      [] OTHER -> Zero

\* C5 (recipe conservation): when an allocation step gives its product an
\* amount a > 0, every ingredient's stock becomes the stock less
\* qty-per-unit times a (H pellet: 0.5 a of Site-1 HV and 0.5 a of Site-2
\* LV), that difference is not negative, so the floor at 0 cuts nothing, and
\* every other stock is unchanged.
C5_RecipeConservation ==
    [][\A pid \in AllocSteps :
          (pc = pid /\ FGt(product_status'[pid].packed_today, Zero)) =>
              \A m \in Materials :
                  LET after == FSub(stocks[m],
                                    ClaimedDraw(pid, m, product_status'[pid].packed_today))
                  IN stocks'[m] = after /\ FGe(after, Zero)]_vars

\* C5 witness: H pellet has just been allocated an amount that emptied one of
\* its two ingredients exactly.
C5_Witness ==
    /\ pc = "G_PELLET"
    /\ FGt(Today("H_PELLET"), Zero)
    /\ stocks[<<"S2", "LV">>] = Zero
    /\ FGt(stocks[<<"S1", "HV">>], Zero)

\* Every product with a positive original target has left <= 0.001.
AllPositiveTargetsMet ==
    \A pid \in Pids :
        FGt(product_status[pid].goal_orig, Zero) => FLe(Left(pid), Milli)

\* C6 (early exit): the day loop stops after a day exactly when every
\* product with a positive original target has left <= 0.001 after that
\* day's allocation or the day is the last of the horizon; otherwise it goes
\* on to the next day; and no day beyond DAYS (30) is simulated.
C6_EarlyExit ==
    [][pc = "check" =>
          /\ (pc' = "summary") <=> (AllPositiveTargetsMet \/ day = 30 - 1)
          /\ pc' /= "summary" => (pc' = "plan" /\ day' = day + 1)
          /\ day' < 30]_vars

\* C6 witness: the loop has stopped before the horizon, after more than one
\* day, with the positive targets all met and one of them met only within
\* the tolerance (a residue above 0 is left of it).
C6_Witness ==
    /\ pc = "summary"
    /\ 0 < day /\ day < 30 - 1
    /\ \E pid \in Pids :
          FGt(product_status[pid].goal_orig, Zero) /\ FGt(Left(pid), Zero)
    /\ AllPositiveTargetsMet

\* C7 (zero total target): when the sum of the positive targets is 0, the
\* overall achievement rate of the summary is 100 if anything was produced
\* during the run, the no-target direct pack included, and 0 otherwise.
C7_ZeroTotalRate ==
    (pc = "done" /\ summary.total_goals_sum = Zero) =>
        summary.overall_achievement_rate =
            (IF \E pid \in Pids : FGt(product_status[pid].packed_sum, Zero)
             THEN N100 ELSE Zero)

\* C8 (safety floor of C_PELLET): its allocation on a day is at most
\* max(0, Site-3 LLV stock at its step - 50); it never takes Site-3 LLV below
\* 50; with the stock at 50 or less at its step it is allocated 0.
C8_SafetyFloor ==
    [][pc = "C_PELLET" =>
          /\ FLe(Today("C_PELLET")', Max(Zero, FSub(stocks[<<"S3", "LLV">>], N50)))
          /\ FLe(stocks[<<"S3", "LLV">>], N50) =>
                (Today("C_PELLET")' = Zero /\ stocks' = stocks)
          /\ FGe(stocks[<<"S3", "LLV">>], N50) =>
                FGe(stocks'[<<"S3", "LLV">>], N50)]_vars

\* C8 witness: after C_PELLET's step, which found the LLV stock at exactly
\* 50 with target left and line capacity, nothing is allocated to it.
C8_Witness ==
    /\ pc = "LV_PACK"
    /\ stocks[<<"S3", "LLV">>] = N50
    /\ FGt(Left("C_PELLET"), Zero)
    /\ FGt(c_line_capacity, Zero)
    /\ Today("C_PELLET") = Zero

\* The tight shared pool scenario: H pellet target 1200 without daily limit,
\* G pellet target 0, a positive pool ceiling.
TightPool ==
    /\ Running
    /\ FGt(s1s2_pack_capa, Zero)
    /\ product_status["H_PELLET"].goal_orig = N1200
    /\ h_daily_limit = Zero
    /\ product_status["G_PELLET"].goal_orig = Zero

\* C9 (tight shared pool): in that scenario H pellet is allocated exactly
\* min(left, P) on every day on which Site-1 HV and Site-2 LV each hold at
\* least half of that amount at H's step.
C9_TightPool ==
    [][(TightPool /\ pc = "H_PELLET") =>
          LET amount == Min(Left("H_PELLET"), s1s2_pack_capa)
          IN (/\ FGe(stocks[<<"S1", "HV">>], FMul(Half, amount))
              /\ FGe(stocks[<<"S2", "LV">>], FMul(Half, amount)))
                => product_status'["H_PELLET"].packed_today = amount]_vars

\* C9 witness: with the pool ceiling at 100, H pellet has just received
\* exactly 100 on a later day, its ingredients not binding.
C9_Witness ==
    /\ TightPool
    /\ s1s2_pack_capa = N100
    /\ pc = "G_PELLET"
    /\ day >= 2
    /\ Today("H_PELLET") = N100
    /\ FGt(Left("H_PELLET"), Zero)

\* C10 (NP3 campaign): on a day on which F pellet has remaining target the
\* NP3 target level is at least 320; the NP3 produced is exactly half the LV
\* made for the campaign: the NP3 recorded is what is added to the NP3 stock,
\* and twice that amount of LV is added, in the same step, to the Site-3 LV
\* stock and to the day's S3 LV production tally.
C10_Np3Campaign ==
    [][pc = "NP3" =>
          LET np3_made == raw_production_today'["NP3"]
              lv_made == FMul(N2, np3_made)
          IN /\ FGt(Left("F_PELLET"), Zero) => FGe(levels'.np3, N320)
             /\ FGe(np3_made, Zero)
             /\ stocks'[<<"S3", "NP3">>] = FAdd(stocks[<<"S3", "NP3">>], np3_made)
             /\ stocks'[<<"S3", "LV">>] = FAdd(stocks[<<"S3", "LV">>], lv_made)
             /\ raw_production_today'["S3_LV"] =
                    FAdd(raw_production_today["S3_LV"], lv_made)]_vars

\* C10 witness: the campaign has just produced NP3 on a day that started with
\* the NP3 stock below 50 and F pellet target left.
C10_Witness ==
    /\ pc = "S1_HV"
    /\ FGt(Left("F_PELLET"), Zero)
    /\ FGt(campaign.np3_produced, Zero)
    /\ FLt(FSub(stocks[<<"S3", "NP3">>], campaign.np3_produced), N50)
    /\ FGe(levels.np3, N320)

\* The amount of product pid its ingredients' stocks support at its step, by
\* the recipes as the claims state them (C_PELLET above the safety floor).
BoundByStock(pid) ==
    CASE pid = "H_PELLET" -> FMul(N2, Min(stocks[<<"S1", "HV">>], stocks[<<"S2", "LV">>]))
      [] pid = "G_PELLET" -> stocks[<<"S1", "HV">>]
      [] pid = "HV_PACK" -> stocks[<<"S1", "HV">>]
      [] pid = "F_PELLET" -> stocks[<<"S3", "NP3">>]
      [] pid = "C_PELLET" -> Max(Zero, FSub(stocks[<<"S3", "LLV">>], N50))
      [] pid = "LV_PACK" -> stocks[<<"S3", "LV">>]
      [] pid = "LLV_PACK" -> stocks[<<"S3", "LLV">>]

\* The run was started with all six target quantities at 0.
ZeroTargets == Running /\ \A pid \in TargetedPids : TargetGoal(pid) = Zero

\* C11 (zero targets): in a run started with all six targets at 0, no
\* targeted product is allocated anything on any day (its amount of the day
\* and its running total stay 0), the steps of the targeted products leave
\* every stock as it is, and no allocation step touches a stock other than
\* the Site-1 HV the direct pack draws.
C11_ZeroTargets ==
    [][ZeroTargets =>
          /\ \A pid \in TargetedPids :
                /\ product_status'[pid].packed_today = Zero
                /\ product_status'[pid].packed_sum = Zero
          /\ pc \in TargetedPids => stocks' = stocks
          /\ pc \in AllocSteps =>
                \A m \in Materials \ {<<"S1", "HV">>} : stocks'[m] = stocks[m]]_vars

\* C11 witness: the allocation steps of a day are over in a zero-target run
\* whose stocks would have supported every targeted product, and only the
\* direct pack has been allocated something.
C11_Witness ==
    /\ ZeroTargets
    /\ pc = "check"
    /\ FGt(Today("HV_PACK"), Zero)
    /\ \A pid \in TargetedPids : Today(pid) = Zero /\ FGt(BoundByStock(pid), Zero)

\* What the claim makes of a limit: none when the configured value is 0.
Unless0(x, cap) == IF cap = Zero THEN x ELSE Min(x, cap)

\* Production toward a target level when the line capacity does not bind.
Unlimited(target, current, ceiling) ==
    Max(Zero, Min(FSub(target, current), FSub(ceiling, current)))

\* C12 (capacity value 0 means unbounded): whenever a daily capacity input is
\* configured as 0, the production or allocation it limits is what the other
\* limits alone give.  Replenishment with a line capacity of 0 (s2_daily,
\* l3_cap, l2_cap, S1 HV max) produces max(0, min(target - stock, ceiling -
\* stock)); an allocation whose daily limit, line capacity or pool ceiling is
\* 0 is min(remaining target, stock-supported amount, the limits that are
\* not 0).
C12_ZeroMeansUnbounded ==
    [][Running =>
          /\ (pc = "S2_LV" /\ s2_lv_capacity = Zero) =>
                raw_production_today'["S2_LV"] =
                    Unlimited(TargetS2LV, stocks[<<"S2", "LV">>], N300)
          /\ (pc = "S3_LV" /\ s3_lv_capacity = Zero) =>
                raw_production_today'["S3_LV"] =
                    Unlimited(TargetS3LVBase, stocks[<<"S3", "LV">>], N500)
          /\ (pc = "S3_LLV" /\ s3_llv_capacity = Zero) =>
                raw_production_today'["LLV"] =
                    Unlimited(TargetS3LLV, stocks[<<"S3", "LLV">>], N500)
          /\ (pc = "S1_HV" /\ s1_hv_max = Zero) =>
                raw_production_today'["HV_S1"] =
                    Unlimited(TargetS1HV, stocks[<<"S1", "HV">>], N500)
          /\ (pc = "H_PELLET" /\ (h_daily_limit = Zero \/ s1s2_pack_capa = Zero)) =>
                product_status'["H_PELLET"].packed_today =
                    Unless0(Unless0(Min(Left("H_PELLET"), BoundByStock("H_PELLET")),
                                    h_daily_limit), s1s2_pack_capa)
          /\ (pc = "G_PELLET" /\ g_daily_limit = Zero
                /\ FGt(remaining_s1s2_capacity, Zero)) =>
                product_status'["G_PELLET"].packed_today =
                    Min3(Left("G_PELLET"), BoundByStock("G_PELLET"),
                         remaining_s1s2_capacity)
          /\ (pc = "G_PELLET" /\ s1s2_pack_capa = Zero) =>
                product_status'["G_PELLET"].packed_today =
                    Unless0(Min(Left("G_PELLET"), BoundByStock("G_PELLET")),
                            g_daily_limit)
          /\ (pc = "HV_PACK" /\ s1s2_pack_capa = Zero) =>
                product_status'["HV_PACK"].packed_today =
                    Unless0(BoundByStock("HV_PACK"), s1_hv_max)
          /\ (pc = "HV_PACK" /\ s1_hv_max = Zero /\ FGt(s1s2_pack_capa, Zero)) =>
                product_status'["HV_PACK"].packed_today =
                    Min(BoundByStock("HV_PACK"), remaining_s1s2_capacity)
          /\ (pc = "F_PELLET" /\ (f_daily_limit = Zero \/ f_line_capacity = Zero)) =>
                product_status'["F_PELLET"].packed_today =
                    Unless0(Unless0(Min(Left("F_PELLET"), BoundByStock("F_PELLET")),
                                    f_daily_limit), f_line_capacity)
          /\ (pc = "C_PELLET" /\ c_line_capacity = Zero) =>
                product_status'["C_PELLET"].packed_today =
                    Min(Left("C_PELLET"), BoundByStock("C_PELLET"))
          /\ (pc = "LV_PACK" /\ granule_capacity = Zero) =>
                product_status'["LV_PACK"].packed_today =
                    Min(Left("LV_PACK"), BoundByStock("LV_PACK"))
          /\ (pc = "LLV_PACK" /\ granule_capacity = Zero) =>
                product_status'["LLV_PACK"].packed_today =
                    Min(Left("LLV_PACK"), BoundByStock("LLV_PACK"))]_vars

\* The capacity the claim makes available to a product: the pool remainder or
\* line capacity, further capped by the daily limit when one is set.
CappedBy(cap, daily_limit) == IF FGt(daily_limit, Zero) THEN Min(cap, daily_limit) ELSE cap

\* The allocation amount as the claim gives it.
ClaimedAmount(pid, capacity) ==
    IF pid = "HV_PACK" THEN Max(Zero, Min(capacity, BoundByStock(pid)))
    ELSE Max(Zero, Min3(Left(pid), capacity, BoundByStock(pid)))

\* C13 (allocation amount): at each of the seven allocation steps the amount
\* allocated equals min(remaining target, capacity available at this step,
\* stock-supported amount) floored at 0, the capacity available being the
\* pool remainder or line capacity capped by the product's daily limit when
\* set; no remaining-target term for the HV direct pack.  Stated for pools
\* and lines configured with a positive capacity, the reading most
\* favourable to the code.
C13_AllocationAmount ==
    [][Running =>
          /\ (pc = "H_PELLET" /\ FGt(s1s2_pack_capa, Zero)) =>
                product_status'["H_PELLET"].packed_today =
                    ClaimedAmount("H_PELLET", CappedBy(remaining_s1s2_capacity, h_daily_limit))
          /\ (pc = "G_PELLET" /\ FGt(s1s2_pack_capa, Zero)) =>
                product_status'["G_PELLET"].packed_today =
                    ClaimedAmount("G_PELLET", CappedBy(remaining_s1s2_capacity, g_daily_limit))
          /\ (pc = "HV_PACK" /\ FGt(s1s2_pack_capa, Zero)) =>
                product_status'["HV_PACK"].packed_today =
                    ClaimedAmount("HV_PACK", CappedBy(remaining_s1s2_capacity, s1_hv_max))
          /\ (pc = "F_PELLET" /\ FGt(f_line_capacity, Zero)) =>
                product_status'["F_PELLET"].packed_today =
                    ClaimedAmount("F_PELLET", CappedBy(f_line_capacity, f_daily_limit))
          /\ (pc = "C_PELLET" /\ FGt(c_line_capacity, Zero)) =>
                product_status'["C_PELLET"].packed_today =
                    ClaimedAmount("C_PELLET", c_line_capacity)
          /\ (pc = "LV_PACK" /\ FGt(granule_capacity, Zero)) =>
                product_status'["LV_PACK"].packed_today =
                    ClaimedAmount("LV_PACK", granule_capacity)
          /\ (pc = "LLV_PACK" /\ FGt(granule_capacity, Zero)) =>
                product_status'["LLV_PACK"].packed_today =
                    ClaimedAmount("LLV_PACK", remaining_granule_capacity)]_vars

\* C14 (planned amounts are upper bounds): once the allocation steps of a day
\* are over, the amount allocated to each of the seven products is at most
\* the quantity planned for it that morning.
C14_PlannedUpperBounds ==
    pc = "check" =>
        /\ FLe(Today("H_PELLET"), planned.h)
        /\ FLe(Today("G_PELLET"), planned.g)
        /\ FLe(Today("HV_PACK"), planned.hv)
        /\ FLe(Today("F_PELLET"), planned.f)
        /\ FLe(Today("C_PELLET"), planned.c)
        /\ FLe(Today("LV_PACK"), planned.lv)
        /\ FLe(Today("LLV_PACK"), planned.llv)

\* One ordinary replenishment step as the claim gives it: the amount is
\* max(0, min(target - stock, capacity floored at 0, ceiling - stock)); it is
\* added to the stock of m and to nothing else, and it is the day's recorded
\* production of the material.
Replenished(m, key, target, capacity, ceiling) ==
    LET amount == Max(Zero, Min3(FSub(target, stocks[m]), Max(Zero, capacity),
                                 FSub(ceiling, stocks[m])))
    IN /\ stocks' = [stocks EXCEPT ![m] = FAdd(@, amount)]
       /\ raw_production_today' = [raw_production_today EXCEPT ![key] = amount]
       /\ FGe(stocks[m], target) => (amount = Zero /\ stocks' = stocks)

\* C15 (replenishment amount): each day, for Site-2 LV, Site-3 LV (ordinary
\* replenishment), Site-3 LLV and Site-1 HV, the amount produced is
\* max(0, min(target level - stock, line capacity floored at 0, ceiling -
\* stock)); exactly that amount is added to the stock and recorded as the
\* material's production of the day, and nothing is produced when the stock
\* is at or above the target level.
C15_ReplenishmentAmount ==
    [][Running =>
          /\ pc = "S2_LV" =>
                Replenished(<<"S2", "LV">>, "S2_LV", levels'.s2_lv,
                            FAdd(GetEntryValue("s2_daily", Zero),
                                 IF emerg_var THEN GetEntryValue("s2_emerg", Zero)
                                 ELSE Zero),
                            N300)
          /\ pc = "S3_LV" =>
                Replenished(<<"S3", "LV">>, "S3_LV", levels'.s3_lv,
                            GetEntryValue("l3_cap", PACK_S3), N500)
          /\ pc = "S3_LLV" =>
                Replenished(<<"S3", "LLV">>, "LLV", levels'.s3_llv,
                            GetEntryValue("l2_cap", PACK_S3), N500)
          /\ pc = "S1_HV" =>
                Replenished(<<"S1", "HV">>, "HV_S1", levels'.s1_hv,
                            GetEntryValue("s1_hv_max_capa", S1_HV_MAX_CAPA), N500)]_vars

\* C15 witness: the Site-3 LLV step has just produced the whole line
\* capacity and the stock is still below the target level.
C15_Witness ==
    /\ pc = "NP3"
    /\ FGt(raw_production_today["LLV"], Zero)
    /\ raw_production_today["LLV"] = GetEntryValue("l2_cap", PACK_S3)
    /\ FLt(stocks[<<"S3", "LLV">>], levels.s3_llv)

\* The quantity planned for a product.
PlannedOf(pid) ==
    CASE pid = "H_PELLET" -> planned.h
      [] pid = "G_PELLET" -> planned.g
      [] pid = "HV_PACK" -> planned.hv
      [] pid = "F_PELLET" -> planned.f
      [] pid = "C_PELLET" -> planned.c
      [] pid = "LV_PACK" -> planned.lv
      [] pid = "LLV_PACK" -> planned.llv

\* The planned consumption of a material: the recipe-weighted sum of the
\* planned amounts of the products that draw on it.
PlannedConsumption(m) ==
    SumOver(Len(PidOrder), [pid \in Pids |-> ClaimedDraw(pid, m, PlannedOf(pid))])

\* The target level of the claim before capping and raises.
ClaimedLevel(m) ==
    FAdd(FAdd(PlannedConsumption(m), FMul(N3, PlannedConsumption(m))),
         IF m = <<"S3", "LLV">> /\ FGt(Left("C_PELLET"), Zero) THEN N50 ELSE Zero)

\* C16 (target stock level): each day the target level of every raw material
\* is, before the ceiling cap (and the Site-2 minimum trigger and the NP3
\* campaign raise), the material's planned consumption of the day plus 3
\* times that same planned consumption, plus the safety floor 50 for Site-3
\* LLV while C_PELLET has target left; so the level the step works with is
\* that quantity raised and capped, within the floating tolerance.
C16_TargetLevel ==
    [][Running =>
          /\ pc = "S2_LV" =>
                Within(levels'.s2_lv,
                       Min(N300, Max(ClaimedLevel(<<"S2", "LV">>), N30)), Eps)
          /\ pc = "S3_LV" =>
                Within(levels'.s3_lv, Min(N500, ClaimedLevel(<<"S3", "LV">>)), Eps)
          /\ pc = "S3_LLV" =>
                Within(levels'.s3_llv, Min(N500, ClaimedLevel(<<"S3", "LLV">>)), Eps)
          /\ pc = "NP3" =>
                Within(levels'.np3,
                       Min(N350,
                           IF FGt(Left("F_PELLET"), Zero)
                           THEN Max(ClaimedLevel(<<"S3", "NP3">>), N320)
                           ELSE ClaimedLevel(<<"S3", "NP3">>)), Eps)
          /\ pc = "S1_HV" =>
                Within(levels'.s1_hv, Min(N500, ClaimedLevel(<<"S1", "HV">>)), Eps)]_vars

\* C17 (shared S3 LV line): on every day the Site-3 LV recorded as produced,
\* ordinary replenishment plus the LV made for the NP3 campaign, is at most
\* the line capacity (l3_cap floored at 0); and the NP3 produced is at most
\* its deficit against the target level, at most its ceiling headroom
\* (350 - stock), and at most half of what the ordinary replenishment left of
\* the LV line capacity and of the LV ceiling headroom.
C17_SharedLvLine ==
    [][Running =>
          /\ FLe(raw_production_today'["S3_LV"], Max(Zero, GetEntryValue("l3_cap", PACK_S3)))
          /\ pc = "NP3" =>
                LET np3_made == raw_production_today'["NP3"]
                    line_left == FSub(Max(Zero, GetEntryValue("l3_cap", PACK_S3)),
                                      raw_production_today["S3_LV"])
                    room_left == FSub(N500, stocks[<<"S3", "LV">>])
                IN /\ stocks'[<<"S3", "NP3">>] = FAdd(stocks[<<"S3", "NP3">>], np3_made)
                   /\ FLe(np3_made, Max(Zero, FSub(levels'.np3, stocks[<<"S3", "NP3">>])))
                   /\ FLe(np3_made, FSub(N350, stocks[<<"S3", "NP3">>]))
                   /\ FLe(np3_made, FMul(Half, Min(line_left, room_left)))]_vars

\* C17 witness: a day on which the ordinary replenishment and the campaign
\* both made LV and together used the whole line.
C17_Witness ==
    /\ pc = "S1_HV"
    /\ FGt(campaign.lv_for_stock, Zero)
    /\ FGt(campaign.np3_produced, Zero)
    /\ raw_production_today["S3_LV"] = GetEntryValue("l3_cap", PACK_S3)
    /\ raw_production_today["S3_LV"] =
          FAdd(campaign.lv_for_stock, FMul(N2, campaign.np3_produced))

ReplenishSteps == {"S2_LV", "S3_LV", "S3_LLV", "NP3", "S1_HV"}

\* The order of a day as the claim states it: what runs after each step.
ClaimedOrder ==
    [S2_LV |-> "S3_LV", S3_LV |-> "S3_LLV", S3_LLV |-> "NP3", NP3 |-> "S1_HV",
     S1_HV |-> "H_PELLET", H_PELLET |-> "G_PELLET", G_PELLET |-> "HV_PACK",
     HV_PACK |-> "F_PELLET", F_PELLET |-> "C_PELLET", C_PELLET |-> "LV_PACK",
     LV_PACK |-> "LLV_PACK", LLV_PACK |-> "check"]

\* C18 (within-day ordering): every day runs the five replenishment steps and
\* then the seven allocation steps H pellet, G pellet, HV direct pack, F
\* pellet, C pellet, LV pack, LLV pack, each once and in that order.  A
\* replenishment step only adds to stocks and allocates nothing; an
\* allocation step only withdraws, records no production and sets the amount
\* of its own product only; the pool remainder a later step sees is what the
\* earlier steps left.
C18_WithinDayOrdering ==
    [][Running =>
          /\ pc = "plan" => pc' = "S2_LV"
          /\ pc \in DOMAIN ClaimedOrder => (pc' = ClaimedOrder[pc] /\ day' = day)
          /\ pc \in ReplenishSteps =>
                /\ \A m \in Materials : FGe(stocks'[m], stocks[m])
                /\ product_status' = product_status
          /\ pc \in AllocSteps =>
                /\ \A m \in Materials : FLe(stocks'[m], stocks[m])
                /\ raw_production_today' = raw_production_today
                /\ \A pid \in Pids \ {pc} : product_status'[pid] = product_status[pid]
          /\ pc \notin ReplenishSteps \cup AllocSteps => stocks' = stocks
          /\ pc \in {"H_PELLET", "G_PELLET", "HV_PACK"} =>
                remaining_s1s2_capacity' =
                    Max(Zero, FSub(remaining_s1s2_capacity,
                                   product_status'[pc].packed_today))
          /\ pc = "LV_PACK" =>
                remaining_granule_capacity' =
                    Max(Zero, FSub(granule_capacity, product_status'[pc].packed_today))
          /\ pc = "LLV_PACK" =>
                remaining_granule_capacity' =
                    Max(Zero, FSub(remaining_granule_capacity,
                                   product_status'[pc].packed_today))]_vars

\* C18 witness: H pellet has just drawn more Site-2 LV than the day started
\* with, so part of its draw was produced the same day.
C18_Witness ==
    /\ pc = "G_PELLET"
    /\ FGt(raw_production_today["S2_LV"], Zero)
    /\ FGt(Today("H_PELLET"), Zero)
    /\ FGt(ClaimedDraw("H_PELLET", <<"S2", "LV">>, Today("H_PELLET")),
           FSub(FAdd(stocks[<<"S2", "LV">>],
                     ClaimedDraw("H_PELLET", <<"S2", "LV">>, Today("H_PELLET"))),
                raw_production_today["S2_LV"]))

\* The production tally a stock is recorded under (none for the stocks no
\* step produces).
TallyOf(m) ==
    CASE m = <<"S1", "HV">> -> "HV_S1"
      [] m = <<"S2", "LV">> -> "S2_LV"
      [] m = <<"S3", "LV">> -> "S3_LV"
      [] m = <<"S3", "LLV">> -> "LLV"
      [] m = <<"S3", "NP3">> -> "NP3"
      [] OTHER -> None

\* The recorded production of m over the finished days, and with the running
\* day's tally so far.
RecordedProduction(m) ==
    IF TallyOf(m) = None THEN Zero ELSE raw_production_sum[TallyOf(m)]
RecordedWithToday(m) ==
    IF TallyOf(m) = None THEN Zero
    ELSE FAdd(raw_production_sum[TallyOf(m)], raw_production_today[TallyOf(m)])

\* qty-per-unit times the amount allocated, over all products and all days
\* so far.
AllocatedDraw(m) ==
    SumOver(Len(PidOrder),
            [pid \in Pids |-> ClaimedDraw(pid, m, product_status[pid].packed_sum)])

\* C19 (mass balance): at the end of every simulated day, for each (site,
\* material), stock = initial stock + the recorded raw production of the days
\* so far - the sum over the days so far and all products of qty-per-unit
\* times the amount allocated, within the floating tolerance; and within a
\* day the same holds with the day's tally and allocations so far.
C19_MassBalance ==
    /\ pc \in {"plan", "summary", "done"} =>
          \A m \in Materials :
              Within(stocks[m],
                     FSub(FAdd(InitialStocks[m], RecordedProduction(m)),
                          AllocatedDraw(m)), Eps)
    /\ pc \in ReplenishSteps \cup AllocSteps \cup {"check"} =>
          \A m \in Materials :
              Within(stocks[m],
                     FSub(FAdd(InitialStocks[m], RecordedWithToday(m)),
                          AllocatedDraw(m)), Eps)

\* C19 witness: the end of a later day, with every raw material produced and
\* every product but G pellet allocated on the days so far.
C19_Witness ==
    /\ pc = "plan"
    /\ day >= 2
    /\ \A k \in RawKeys : FGt(raw_production_sum[k], Zero)
    /\ \A pid \in Pids \ {"G_PELLET"} : FGt(product_status[pid].packed_sum, Zero)

\* The tight-pool scenario of C20: pool ceiling 100, H pellet target 1200
\* without daily limit, G pellet target 0, emergency mode off, s2_daily 89,
\* S1 HV max 400.
TightPoolDefaults ==
    /\ TightPool
    /\ s1s2_pack_capa = N100
    /\ ~emerg_var
    /\ GetEntryValue("s2_daily", Zero) = N89
    /\ GetEntryValue("s1_hv_max_capa", S1_HV_MAX_CAPA) = N400

\* C20 (target completion in the tight-pool scenario): on each of days 1 to
\* 12 both ingredients of H pellet hold at least the 50 its step needs, H
\* pellet is allocated 100, its remaining target after day d is
\* 1200 - 100 d, and it is 0 from the end of day 12 on.
C20_TightPoolCompletion ==
    TightPoolDefaults =>
        /\ (pc = "H_PELLET" /\ day < 12) =>
              /\ FGe(stocks[<<"S1", "HV">>], N50)
              /\ FGe(stocks[<<"S2", "LV">>], N50)
        /\ (pc \in (AllocSteps \cup {"check"}) \ {"H_PELLET"} /\ day < 12) =>
              /\ Today("H_PELLET") = N100
              /\ Left("H_PELLET") = FInt(1200 - (day + 1) * 100)
        /\ (day = 12 - 1 /\ pc \in {"check", "summary", "done"}) =>
              Left("H_PELLET") = Zero
        /\ day >= 12 => Left("H_PELLET") = Zero

\* C20 witness: the end of day 12 of the scenario, H pellet allocated 100
\* that day and nothing left of its target.
C20_Witness ==
    /\ TightPoolDefaults
    /\ pc = "check"
    /\ day = 12 - 1
    /\ Today("H_PELLET") = N100
    /\ Left("H_PELLET") = Zero

====
